---- MODULE Spec2Model ----
(***************************************************************************)
(* A model of uqbar.io (src/uqbar/io/__init__.py): walk, write,            *)
(* find_common_prefix and relative_to.                                     *)
(*                                                                         *)
(* The four functions share no state, so the module holds three            *)
(* specifications over one set of variables:                               *)
(*   SpecPaths  one call of find_common_prefix or relative_to on inputs    *)
(*              drawn by the initial state;                                *)
(*   SpecWrite  a sequence of write calls on a file system that starts     *)
(*              empty;                                                     *)
(*   SpecWalk   a pre-order and a post-order walk, one after the other,    *)
(*              of a directory tree drawn by the initial state.            *)
(***************************************************************************)
EXTENDS Naturals, Sequences, FiniteSets

VARIABLES
    call,      \* SpecPaths: the call under way and its arguments
    ret,       \* SpecPaths: what the call returned or raised
    fs,        \* SpecWrite, SpecWalk: the file system
    log,       \* SpecWrite: the write calls made so far, oldest first
    gen,       \* SpecWalk: the stack of generator frames of the running walk
    out        \* SpecWalk: the triples yielded so far, per traversal order

vars == <<call, ret, fs, log, gen, out>>

(***************************************************************************)
(* Bounds                                                                  *)
(***************************************************************************)
MaxSegs == 3        \* segments of a path handed to relative_to
MaxPrefixSegs == 2  \* segments of a path handed to find_common_prefix
MaxPaths == 2       \* paths in the collection handed to find_common_prefix
MaxCalls == 3       \* write calls in one behaviour
MaxEntries == 3     \* directories and files in the tree that is walked

(***************************************************************************)
(* Paths (pathlib.PurePosixPath): a root and a sequence of segments.       *)
(* The root is "/" or "//" for an absolute path and "" for a relative one. *)
(***************************************************************************)
Roots == {"/", "//"}
RelRoot == ""
Segments == {"a", "b", ".."}

SeqsUpTo(S, n) == UNION {[1..k -> S] : k \in 0..n}

PathsUpTo(n) == [root : Roots \cup {RelRoot}, segs : SeqsUpTo(Segments, n)]

AbsPathsUpTo(n) == [root : Roots, segs : SeqsUpTo(Segments, n)]

\* The process's working directory, which absolute() prepends.
Cwd == [root |-> "/", segs |-> <<"a">>]

\* Python's None, as returned by find_common_prefix when nothing qualifies.
None == [root |-> "None", segs |-> <<>>]

IsAbsolute(path) == path.root \in Roots

\* Path.absolute(): prepend the working directory to a relative path.
\* Segments are kept as they are: ".." is not collapsed.
absolute(path) ==
    IF IsAbsolute(path) THEN path
    ELSE [root |-> Cwd.root, segs |-> Cwd.segs \o path.segs]

\* Path.parts: the root, when there is one, counts as a part.
parts(path) == IF path.root = RelRoot THEN path.segs ELSE <<path.root>> \o path.segs

\* Path.parent: the root is its own parent.
parent(path) ==
    IF path.segs = <<>> THEN path
    ELSE [root |-> path.root, segs |-> SubSeq(path.segs, 1, Len(path.segs) - 1)]

\* Path.parents: the proper ancestors, nearest first.
parents(path) ==
    [i \in 1..Len(path.segs) |->
        [root |-> path.root, segs |-> SubSeq(path.segs, 1, Len(path.segs) - i)]]

(***************************************************************************)
(* find_common_prefix                                                      *)
(***************************************************************************)
\* The position of key in the counter (a sequence of entries in insertion
\* order, as a Python dict keeps them), or 0.
IndexOf(counter, key) ==
    IF \E i \in 1..Len(counter) : counter[i].key = key
    THEN CHOOSE i \in 1..Len(counter) : counter[i].key = key
    ELSE 0

\* Counter.update(keys): add one to the count of every key, in order.
RECURSIVE CounterUpdate(_, _)
CounterUpdate(counter, keys) ==
    IF keys = <<>> THEN counter
    ELSE LET i == IndexOf(counter, Head(keys))
             next == IF i = 0
                     THEN Append(counter, [key |-> Head(keys), count |-> 1])
                     ELSE [counter EXCEPT ![i].count = @ + 1]
         IN  CounterUpdate(next, Tail(keys))

\* The loop of find_common_prefix: every path and its parents are counted.
RECURSIVE CountPaths(_, _)
CountPaths(paths, counter) ==
    IF paths = <<>> THEN counter
    ELSE LET path == absolute(Head(paths))
         IN  CountPaths(Tail(paths),
                        CounterUpdate(CounterUpdate(counter, <<path>>), parents(path)))

\* The comprehension's filter, of a mutant that keeps every counted path.
QualifiesAny(count, n) == count >= 1

\* The comprehension's filter: count >= len(paths).
Qualifies(count, n) == count >= n

\* The list comprehension: the keys that qualify, in the counter's order.
RECURSIVE Qualifying(_, _)
Qualifying(counter, n) ==
    IF counter = <<>> THEN <<>>
    ELSE (IF Qualifies(Head(counter).count, n) THEN <<Head(counter).key>> ELSE <<>>)
         \o Qualifying(Tail(counter), n)

\* Insert x after the last element whose key is not greater (a stable sort).
RECURSIVE InsertByParts(_, _)
InsertByParts(sorted, x) ==
    IF sorted = <<>> THEN <<x>>
    ELSE IF Len(parts(sorted[Len(sorted)])) <= Len(parts(x)) THEN Append(sorted, x)
    ELSE Append(InsertByParts(SubSeq(sorted, 1, Len(sorted) - 1), x), sorted[Len(sorted)])

\* sorted(..., key=lambda x: len(x.parts))
RECURSIVE SortByParts(_)
SortByParts(s) ==
    IF s = <<>> THEN <<>>
    ELSE InsertByParts(SortByParts(SubSeq(s, 1, Len(s) - 1)), s[Len(s)])

find_common_prefix(paths) ==
    LET counter == CountPaths(paths, <<>>)
        sorted == SortByParts(Qualifying(counter, Len(paths)))
    IN  IF sorted # <<>> THEN sorted[Len(sorted)] ELSE None

(***************************************************************************)
(* relative_to                                                             *)
(***************************************************************************)
IsPrefix(s, t) == Len(s) <= Len(t) /\ SubSeq(t, 1, Len(s)) = s

\* PurePath.relative_to(other): the segments of path below other. It raises
\* ValueError when other is no ancestor-or-self of path.
CanRelativeTo(path, other) == path.root = other.root /\ IsPrefix(other.segs, path.segs)

PathRelativeTo(path, other) ==
    [root |-> RelRoot, segs |-> SubSeq(path.segs, Len(other.segs) + 1, Len(path.segs))]

\* The operator /: an absolute right operand replaces the left one.
Join(left, right) ==
    IF IsAbsolute(right) THEN right
    ELSE [root |-> left.root, segs |-> left.segs \o right.segs]

\* pathlib.Path(*['..'] * n)
Ups(n) == [root |-> RelRoot, segs |-> [i \in 1..n |-> ".."]]

\* The effective source, of a mutant that never takes a file's directory.
EffectiveSourceNoParent(source_path, is_file) == absolute(source_path)

\* Lines 100-102: the source made absolute, and its directory if it is a file.
EffectiveSource(source_path, is_file) ==
    IF is_file THEN parent(absolute(source_path)) ELSE absolute(source_path)

\* The descent, of a mutant that forgets to relativize the target.
TargetBelowAbsolute(target_path, common_prefix) == target_path

\* Line 108: the target below the common prefix.
TargetBelow(target_path, common_prefix) == PathRelativeTo(target_path, common_prefix)

\* The result is [raised |-> the ValueError's message or "", value |-> the path].
relative_to(source_path, target_path, is_file) ==
    LET source == EffectiveSource(source_path, is_file)
        target == absolute(target_path)
        common_prefix == find_common_prefix(<<source, target>>)
    IN  IF common_prefix = None
        THEN [raised |-> "No common prefix", value |-> None]
        ELSE IF ~CanRelativeTo(source, common_prefix) \/ ~CanRelativeTo(target, common_prefix)
        THEN [raised |-> "not in the subpath", value |-> None]
        ELSE [raised |-> "",
              value |-> Join(Ups(Len(parts(PathRelativeTo(source, common_prefix)))),
                             TargetBelow(target, common_prefix))]

(***************************************************************************)
(* SpecPaths: the initial state draws one call and its arguments; the      *)
(* call's action applies the function.                                     *)
(***************************************************************************)
NoCall == [op |-> "none", paths |-> <<>>, source |-> None, target |-> None,
           is_file |-> FALSE]
NoRet == [done |-> FALSE, raised |-> "", value |-> None]

\* A file has a name: it is neither a root nor "..".
CanBeFile(path) == path.segs # <<>> /\ path.segs[Len(path.segs)] # ".."

IdleFs == [dirs |-> {}, files |-> <<>>]

InitPaths ==
    /\ \/ \E n \in 0..MaxPaths : \E paths \in [1..n -> AbsPathsUpTo(MaxPrefixSegs)] :
             call = [NoCall EXCEPT !.op = "find_common_prefix", !.paths = paths]
       \/ \E source \in PathsUpTo(MaxSegs), target \in PathsUpTo(MaxSegs),
             is_file \in BOOLEAN :
             /\ is_file => CanBeFile(source)
             /\ call = [NoCall EXCEPT !.op = "relative_to", !.source = source,
                                      !.target = target, !.is_file = is_file]
    /\ ret = NoRet
    /\ fs = IdleFs
    /\ log = <<>>
    /\ gen = <<>>
    /\ out = <<>>

FindCommonPrefixCall ==
    /\ call.op = "find_common_prefix"
    /\ ~ret.done
    /\ ret' = [done |-> TRUE, raised |-> "", value |-> find_common_prefix(call.paths)]
    /\ UNCHANGED <<call, fs, log, gen, out>>

RelativeToCall ==
    /\ call.op = "relative_to"
    /\ ~ret.done
    /\ LET r == relative_to(call.source, call.target, call.is_file)
       IN  ret' = [done |-> TRUE, raised |-> r.raised, value |-> r.value]
    /\ UNCHANGED <<call, fs, log, gen, out>>

NextPaths == FindCommonPrefixCall \/ RelativeToCall

SpecPaths == InitPaths /\ [][NextPaths]_vars

(***************************************************************************)
(* Properties of find_common_prefix and relative_to (SpecPaths)            *)
(***************************************************************************)
AncestorOrSelf(p, q) == p.root = q.root /\ IsPrefix(p.segs, q.segs)

FcpDone == ret.done /\ call.op = "find_common_prefix"
RelDone == ret.done /\ call.op = "relative_to"

ShareRoot(paths) == \A i, j \in 1..Len(paths) : paths[i].root = paths[j].root

\* Every ancestor-or-self of a path: what a common ancestor has to be one of.
AncestorsOrSelf(path) ==
    {[root |-> path.root, segs |-> SubSeq(path.segs, 1, k)] : k \in 0..Len(path.segs)}

\* C1: for a non-empty collection of absolute paths under one root,
\* find_common_prefix returns an ancestor-or-self of every input, no
\* ancestor-or-self of every input has more segments, and a single path
\* gives that path.
C1_CommonPrefixIsDeepest ==
    (FcpDone /\ call.paths # <<>> /\ ShareRoot(call.paths)) =>
        /\ ret.value # None
        /\ \A i \in 1..Len(call.paths) : AncestorOrSelf(ret.value, call.paths[i])
        /\ \A q \in AncestorsOrSelf(call.paths[1]) :
              (\A i \in 1..Len(call.paths) : AncestorOrSelf(q, call.paths[i]))
                  => Len(q.segs) <= Len(ret.value.segs)
        /\ Len(call.paths) = 1 => ret.value = call.paths[1]

\* Two different paths under /a give /a.
C1_Witness ==
    /\ FcpDone
    /\ call.paths = <<[root |-> "/", segs |-> <<"a", "a">>],
                      [root |-> "/", segs |-> <<"a", "b">>]>>
    /\ ret.value = [root |-> "/", segs |-> <<"a">>]

\* Collapse every ".." with the segment before it; at the root ".." stays
\* at the root.
RECURSIVE NormalizeSegs(_, _)
NormalizeSegs(done, rest) ==
    IF rest = <<>> THEN done
    ELSE IF Head(rest) = ".."
         THEN NormalizeSegs(IF done = <<>> THEN <<>> ELSE SubSeq(done, 1, Len(done) - 1),
                            Tail(rest))
         ELSE NormalizeSegs(Append(done, Head(rest)), Tail(rest))

Normalize(path) == [root |-> path.root, segs |-> NormalizeSegs(<<>>, path.segs)]

HasDotDot(path) == \E i \in 1..Len(path.segs) : path.segs[i] = ".."

\* The deepest common ancestor-or-self of two segment sequences.
CommonSegs(s, t) ==
    LET k == CHOOSE n \in 0..Len(s) :
                 /\ IsPrefix(SubSeq(s, 1, n), t)
                 /\ \A m \in (n + 1)..Len(s) : ~IsPrefix(SubSeq(s, 1, m), t)
    IN  SubSeq(s, 1, k)

\* C9: find_common_prefix resolves ".." segments before counting: the
\* returned path has no ".." segment, and it is the deepest common ancestor
\* of the locations the inputs denote.
C9_DotDotResolved ==
    (FcpDone /\ Len(call.paths) = 2 /\ ShareRoot(call.paths)) =>
        /\ ~HasDotDot(ret.value)
        /\ ret.value.segs = CommonSegs(Normalize(call.paths[1]).segs,
                                       Normalize(call.paths[2]).segs)

\* C2: for a source A that is a file and a target B under the same root,
\* relative_to(A, B) joined onto A's directory and normalized is B's
\* location.
C2_RoundTrip ==
    (RelDone /\ call.is_file /\ absolute(call.source).root = absolute(call.target).root) =>
        /\ ret.raised = ""
        /\ Normalize(Join(parent(absolute(call.source)), ret.value))
               = Normalize(absolute(call.target))

\* C8: relative_to raises "No common prefix" exactly when the effective
\* source and the target have different roots, which is exactly when
\* find_common_prefix finds nothing for the two; under one root it returns
\* a relative path.
C8_RaisesIffDisjointRoots ==
    RelDone =>
        LET source == IF call.is_file THEN parent(absolute(call.source))
                      ELSE absolute(call.source)
            target == absolute(call.target)
        IN  /\ ret.raised \in {"", "No common prefix"}
            /\ (ret.raised = "No common prefix") <=> (source.root # target.root)
            /\ (find_common_prefix(<<source, target>>) = None)
                   <=> (source.root # target.root)
            /\ source.root = target.root =>
                   (ret.value # None /\ ~IsAbsolute(ret.value))

\* A source under "//" and a target under "/" raise the error.
C8_Witness ==
    /\ RelDone
    /\ call.source.root = "//"
    /\ call.target.root = "/"
    /\ ret.raised = "No common prefix"

\* C10: the result is one ".." for every segment of the effective source
\* directory below the common prefix, followed by the target's segments
\* below the common prefix.
C10_ResultShape ==
    (RelDone /\ ret.raised = "") =>
        LET source == IF call.is_file THEN parent(absolute(call.source))
                      ELSE absolute(call.source)
            target == absolute(call.target)
            P == CommonSegs(source.segs, target.segs)
            k == Len(source.segs) - Len(P)
        IN  /\ ret.value.root = RelRoot
            /\ ret.value.segs
                   = [i \in 1..k |-> ".."] \o SubSeq(target.segs, Len(P) + 1, Len(target.segs))

\* relative_to('/a/a/b', '/a/b/a') with /a/a/b a file gives ../b/a.
C10_Witness ==
    /\ RelDone
    /\ call.is_file
    /\ call.source = [root |-> "/", segs |-> <<"a", "a", "b">>]
    /\ call.target = [root |-> "/", segs |-> <<"a", "b", "a">>]
    /\ ret.value = [root |-> RelRoot, segs |-> <<"..", "b", "a">>]

(***************************************************************************)
(* The file system: the directories other than the root, and the files     *)
(* with their contents. A path is the sequence of its segments below the   *)
(* root, which is the empty sequence and always a directory.               *)
(***************************************************************************)
Exists(f, path) == path = <<>> \/ path \in f.dirs \/ path \in DOMAIN f.files

IsDir(f, path) == path = <<>> \/ path \in f.dirs

IsFile(f, path) == path \in DOMAIN f.files

Parent(path) == SubSeq(path, 1, Len(path) - 1)

\* path and its ancestors below the root.
SelfAndAncestors(path) == {SubSeq(path, 1, k) : k \in 1..Len(path)}

\* Some component on the way to path is a file: the system call fails with
\* ENOTDIR.
UnderFile(f, path) == \E k \in 0..(Len(path) - 1) : IsFile(f, SubSeq(path, 1, k))

(***************************************************************************)
(* write                                                                   *)
(***************************************************************************)
WritePaths == {<<"f">>, <<"d">>, <<"d", "f">>, <<"d", "e">>, <<"d", "e", "f">>}
Contents == {"X", "Y"}

\* The comparison, of a mutant that rewrites whatever the file holds.
NeverSame(old_contents, contents) == FALSE

\* Line 64: old_contents == contents
SameContents(old_contents, contents) == old_contents = contents

\* The write, of a mutant that leaves an existing file as it is.
StoreIfAbsent(files, path, contents) ==
    [p \in DOMAIN files \cup {path} |-> IF p \in DOMAIN files THEN files[p] ELSE contents]

\* open('w') and write(contents): the file holds contents and nothing else.
Store(files, path, contents) ==
    [p \in DOMAIN files \cup {path} |-> IF p = path THEN contents ELSE files[p]]

\* Lines 74-80 end without a return statement: the call returns None.
ReturnedAfterCreate == "None"

\* bool(value) of the three values write returns.
Truthy(value) == value = "True"

\* The outcome of write(contents, path, verbose) on the file system f:
\*   fs       the file system afterwards
\*   returned "True", "False" or "None", or "" when the call raised
\*   raised   the exception's class, or "" when the call returned
\*   wrote    the file was opened for writing and contents written to it
\*   made     the directories mkdir created
\*   printed  the line printed, or ""
write(f, contents, path, verbose) ==
    LET unchanged == [fs |-> f, returned |-> "", raised |-> "", wrote |-> FALSE,
                      made |-> {}, printed |-> ""]
        say(word) == IF verbose THEN word ELSE ""
    IN  IF Exists(f, path) /\ ~UnderFile(f, path)
        THEN IF IsDir(f, path)
             THEN [unchanged EXCEPT !.raised = "IsADirectoryError"]
             ELSE IF SameContents(f.files[path], contents)
             THEN [unchanged EXCEPT !.returned = "False", !.printed = say("preserved")]
             ELSE [unchanged EXCEPT
                      !.fs = [f EXCEPT !.files = Store(f.files, path, contents)],
                      !.returned = "True", !.wrote = TRUE, !.printed = say("rewrote")]
        ELSE IF UnderFile(f, path)
             THEN [unchanged EXCEPT !.raised = "NotADirectoryError"]
             ELSE LET made == SelfAndAncestors(Parent(path)) \ f.dirs
                  IN  [unchanged EXCEPT
                          !.fs = [dirs |-> f.dirs \cup made,
                                  files |-> Store(f.files, path, contents)],
                          !.returned = ReturnedAfterCreate, !.wrote = TRUE,
                          !.made = made, !.printed = say("wrote")]

(***************************************************************************)
(* SpecWrite: write calls, one after the other, on a file system that      *)
(* starts empty. Every call is logged with the file system it found.       *)
(***************************************************************************)
InitWrite ==
    /\ call = NoCall
    /\ ret = NoRet
    /\ fs = IdleFs
    /\ log = <<>>
    /\ gen = <<>>
    /\ out = <<>>

WriteCall(contents, path, verbose) ==
    /\ Len(log) < MaxCalls
    /\ LET r == write(fs, contents, path, verbose)
       IN  /\ fs' = r.fs
           /\ log' = Append(log, [contents |-> contents, path |-> path,
                                  verbose |-> verbose, before |-> fs,
                                  returned |-> r.returned, raised |-> r.raised,
                                  wrote |-> r.wrote, made |-> r.made,
                                  printed |-> r.printed])
    /\ UNCHANGED <<call, ret, gen, out>>

NextWrite ==
    \E contents \in Contents, path \in WritePaths, verbose \in BOOLEAN :
        WriteCall(contents, path, verbose)

SpecWrite == InitWrite /\ [][NextWrite]_vars

(***************************************************************************)
(* Properties of write (SpecWrite)                                         *)
(***************************************************************************)
\* The last call, when there is one.
Last == log[Len(log)]

Returned(rec) == rec.raised = ""

\* C3: the value write returns is truthy whenever the call wrote the file
\* and falsy when it preserved it.
C3_TruthyIffWrote ==
    (log # <<>> /\ Returned(Last)) => (Truthy(Last.returned) <=> Last.wrote)

Repeated(i) ==
    /\ i + 1 <= Len(log)
    /\ log[i].contents = log[i + 1].contents
    /\ log[i].path = log[i + 1].path
    /\ Returned(log[i])
    /\ Returned(log[i + 1])

\* The file system after the i-th call.
After(i) == IF i < Len(log) THEN log[i + 1].before ELSE fs

WalkNames == {"a", "ab", "b"}

\* The characters of a name as code points, for the order of str.
CodePoints(name) ==
    CASE name = "a" -> <<97>>
      [] name = "ab" -> <<97, 98>>
      [] name = "b" -> <<98>>

\* s < t for two sequences of numbers, as Python orders str and tuple.
RECURSIVE LexLess(_, _)
LexLess(s, t) ==
    IF t = <<>> THEN FALSE
    ELSE IF s = <<>> THEN TRUE
    ELSE IF Head(s) # Head(t) THEN Head(s) < Head(t)
    ELSE LexLess(Tail(s), Tail(t))

NameLess(x, y) == LexLess(CodePoints(x), CodePoints(y))

\* PurePath.__lt__: the parts are compared as tuples of str.
RECURSIVE PathLess(_, _)
PathLess(p, q) ==
    IF q = <<>> THEN FALSE
    ELSE IF p = <<>> THEN TRUE
    ELSE IF Head(p) # Head(q) THEN NameLess(Head(p), Head(q))
    ELSE PathLess(Tail(p), Tail(q))

\* The sort, of a mutant that sorts in descending order.
RECURSIVE SortedDescending(_)
SortedDescending(S) ==
    IF S = {} THEN <<>>
    ELSE LET m == CHOOSE x \in S : \A y \in S : x = y \/ PathLess(y, x)
         IN  <<m>> \o SortedDescending(S \ {m})

\* sorted(...) of a set of paths: iterdir() lists them in no given order.
RECURSIVE sorted(_)
sorted(S) ==
    IF S = {} THEN <<>>
    ELSE LET m == CHOOSE x \in S : \A y \in S : x = y \/ PathLess(x, y)
         IN  <<m>> \o sorted(S \ {m})

\* root_path.iterdir(): the entries of the directory.
iterdir(f, root_path) ==
    {p \in f.dirs \cup DOMAIN f.files :
        Len(p) = Len(root_path) + 1 /\ Parent(p) = root_path}

\* The post-order test, of a mutant that yields after the loop in both
\* traversal orders.
YieldsAfterAlways(top_down) == TRUE

\* Line 39: if not top_down
YieldsAfter(top_down) == ~top_down

\* Lines 28-34: the generator's frame once the directory is listed.
Frame(f, root_path, top_down) ==
    LET entries == sorted(iterdir(f, root_path))
    IN  [root_path |-> root_path,
         top_down |-> top_down,
         directory_paths |-> SelectSeq(entries, LAMBDA p : IsDir(f, p)),
         file_paths |-> SelectSeq(entries, LAMBDA p : ~IsDir(f, p)),
         next |-> 1,
         pc |-> "listed"]

\* The triple a frame yields.
Triple(frame) ==
    [root_path |-> frame.root_path, directory_paths |-> frame.directory_paths,
     file_paths |-> frame.file_paths]

Top == gen[Len(gen)]

\* No walk has run: per traversal order, the walk's state and its triples.
NoOutput == [b \in BOOLEAN |-> [state |-> "idle", triples |-> <<>>]]

\* walk(root_path, top_down) is called on the root and runs to its listing.
WalkCall(top_down) ==
    /\ gen = <<>>
    /\ out[top_down].state = "idle"
    /\ gen' = <<Frame(fs, <<>>, top_down)>>
    /\ out' = [out EXCEPT ![top_down].state = "running"]
    /\ UNCHANGED <<call, ret, fs, log>>

\* Lines 35-36: the triple is yielded before the loop when top_down.
YieldBefore ==
    /\ gen # <<>>
    /\ Top.pc = "listed"
    /\ out' = IF Top.top_down
              THEN [out EXCEPT ![Top.top_down].triples = Append(@, Triple(Top))]
              ELSE out
    /\ gen' = [gen EXCEPT ![Len(gen)].pc = "loop"]
    /\ UNCHANGED <<call, ret, fs, log>>

\* Lines 37-38: the loop recurses into the next subdirectory.
Recurse ==
    /\ gen # <<>>
    /\ Top.pc = "loop"
    /\ Top.next <= Len(Top.directory_paths)
    /\ gen' = Append([gen EXCEPT ![Len(gen)].next = @ + 1],
                     Frame(fs, Top.directory_paths[Top.next], Top.top_down))
    /\ UNCHANGED <<call, ret, fs, log, out>>

\* Lines 39-40: after the loop the triple is yielded when not top_down, and
\* the generator is exhausted.
YieldAfter ==
    /\ gen # <<>>
    /\ Top.pc = "loop"
    /\ Top.next > Len(Top.directory_paths)
    /\ gen' = SubSeq(gen, 1, Len(gen) - 1)
    /\ LET yielded == IF YieldsAfter(Top.top_down)
                      THEN Append(out[Top.top_down].triples, Triple(Top))
                      ELSE out[Top.top_down].triples
       IN  out' = [out EXCEPT ![Top.top_down] =
                      [state |-> IF Len(gen) = 1 THEN "done" ELSE "running",
                       triples |-> yielded]]
    /\ UNCHANGED <<call, ret, fs, log>>

(***************************************************************************)
(* SpecWalk: the initial state draws a directory tree; the tree is walked  *)
(* in both traversal orders, one walk after the other, and does not change.*)
(***************************************************************************)
\* The trees with one entry more than t.
Grow(t) ==
    LET free == {p \o <<n>> : p \in t.dirs \cup {<<>>}, n \in WalkNames}
                    \ (t.dirs \cup DOMAIN t.files)
    IN  {[dirs |-> t.dirs \cup {p}, files |-> t.files] : p \in free}
        \cup {[dirs |-> t.dirs, files |-> Store(t.files, p, "X")] : p \in free}

RECURSIVE TreesUpTo(_)
TreesUpTo(n) ==
    IF n = 0 THEN {IdleFs}
    ELSE LET smaller == TreesUpTo(n - 1)
         IN  smaller \cup UNION {Grow(t) : t \in smaller}

InitWalk ==
    /\ call = NoCall
    /\ ret = NoRet
    /\ fs \in TreesUpTo(MaxEntries)
    /\ log = <<>>
    /\ gen = <<>>
    /\ out = NoOutput

NextWalk ==
    \/ \E top_down \in BOOLEAN : WalkCall(top_down)
    \/ YieldBefore
    \/ Recurse
    \/ YieldAfter

SpecWalk == InitWalk /\ [][NextWalk]_vars

\* A generator that is consumed runs on: every step of a walk is taken.
FairSpecWalk == SpecWalk /\ WF_vars(NextWalk)

(***************************************************************************)
(* Properties of walk (SpecWalk, FairSpecWalk)                             *)
(***************************************************************************)
\* Every directory of the tree, the root among them.
AllDirs == fs.dirs \cup {<<>>}

BothDone == out[TRUE].state = "done" /\ out[FALSE].state = "done"

TripleSet(top_down) ==
    {out[top_down].triples[i] : i \in 1..Len(out[top_down].triples)}

\* Where the triple of directory d stands in a walk's output.
Positions(top_down, d) ==
    {i \in 1..Len(out[top_down].triples) : out[top_down].triples[i].root_path = d}

\* s lists exactly the paths of S, each once.
Lists(s, S) == Len(s) = Cardinality(S) /\ {s[i] : i \in 1..Len(s)} = S

\* The triple of d holds d's subdirectories and d's files.
TripleOf(t, d) ==
    /\ t.root_path = d
    /\ Lists(t.directory_paths, {p \in fs.dirs : Parent(p) = d})
    /\ Lists(t.file_paths, {p \in DOMAIN fs.files : Parent(p) = d})

SameTriples ==
    /\ TripleSet(TRUE) = TripleSet(FALSE)
    /\ \A top_down \in BOOLEAN :
          /\ Len(out[top_down].triples) = Cardinality(AllDirs)
          /\ \A d \in AllDirs :
                /\ Cardinality(Positions(top_down, d)) = 1
                /\ \A i \in Positions(top_down, d) : TripleOf(out[top_down].triples[i], d)

\* C6: both walks of a tree terminate, and they yield the same set of
\* triples, one for every directory of the tree.
C6_WalksAgree == <>BothDone /\ [](BothDone => SameTriples)

\* Both walks of a tree with a directory in a directory are done, and
\* their outputs differ in order.
C6_Witness ==
    /\ BothDone
    /\ <<"a", "b">> \in fs.dirs
    /\ <<"b">> \in DOMAIN fs.files
    /\ Len(out[TRUE].triples) = 3
    /\ out[TRUE].triples # out[FALSE].triples

Pos(top_down, d) == CHOOSE i \in Positions(top_down, d) : TRUE

\* d and the directories below it.
Subtree(d) == {e \in AllDirs : IsPrefix(d, e)}

Siblings(d, e) == d # <<>> /\ e # <<>> /\ d # e /\ Parent(d) = Parent(e)

\* The triples of the directories of S stand next to each other.
Contiguous(top_down, S) ==
    \A d \in S, e \in S, i \in 1..Len(out[top_down].triples) :
        (Pos(top_down, d) <= i /\ i <= Pos(top_down, e))
            => out[top_down].triples[i].root_path \in S

\* C7: in a finished pre-order walk a directory's triple stands before
\* those of its descendants and in a finished post-order walk after them;
\* in both, the subtrees of sibling directories stand in the order of the
\* siblings' names, each subtree in one piece.
C7_EmissionOrder ==
    \A top_down \in BOOLEAN :
        out[top_down].state = "done" =>
            /\ \A d \in AllDirs : Positions(top_down, d) # {}
            /\ \A d \in AllDirs, e \in AllDirs :
                  (d # e /\ IsPrefix(d, e)) =>
                      IF top_down THEN Pos(top_down, d) < Pos(top_down, e)
                      ELSE Pos(top_down, d) > Pos(top_down, e)
            /\ \A d \in AllDirs, e \in AllDirs :
                  (Siblings(d, e) /\ NameLess(d[Len(d)], e[Len(e)])) =>
                      \A x \in Subtree(d), y \in Subtree(e) :
                          Pos(top_down, x) < Pos(top_down, y)
            /\ \A d \in AllDirs : Contiguous(top_down, Subtree(d))

\* A finished post-order walk of a tree with the sibling directories a
\* and ab and a directory in a: a/b, a, ab, then the root.
C7_Witness ==
    /\ out[FALSE].state = "done"
    /\ {<<"a">>, <<"ab">>, <<"a", "b">>} = fs.dirs
    /\ Len(out[FALSE].triples) = 4
    /\ out[FALSE].triples[1].root_path = <<"a", "b">>
    /\ out[FALSE].triples[3].root_path = <<"ab">>

====
